---- MODULE Spec2Model ----
(***************************************************************************)
(* A model of work_log/get_google_calendar.py: the credential step, the    *)
(* event query get_events, its wrapper get_todays_events and the entry     *)
(* program, with the Google client library as the environment.             *)
(***************************************************************************)
EXTENDS Integers, Sequences, FiniteSets, TLC

(* ------------------------------------------------------------------ *)
(* Python values                                                      *)
(* ------------------------------------------------------------------ *)

\* Python's None.
None == [tag |-> "None"]

\* A Python str; val is its sequence of characters.
Str(s) == [tag |-> "str", val |-> s]

\* A Python list; val is its sequence of elements.
List(s) == [tag |-> "list", val |-> s]

\* Python truthiness of an optional str argument (`if not start_time`).
Truthy(v) == v # None /\ ~(v.tag = "str" /\ v.val = <<>>)

(* ------------------------------------------------------------------ *)
(* Date-times and DATETIME_FMT                                         *)
(* ------------------------------------------------------------------ *)

DT(y, mo, d, h, mi, s) ==
    [year |-> y, month |-> mo, day |-> d, hour |-> h, minute |-> mi, second |-> s]

\* The instants the wall clock is sampled at, in increasing order.
Times ==
    << DT(2024, 6, 15, 0, 0, 0),
       DT(2024, 6, 15, 9, 5, 7),
       DT(2024, 6, 15, 23, 59, 59),
       DT(2039, 1, 1, 0, 0, 0),
       DT(2039, 1, 1, 1, 0, 0) >>

\* Clock positions a call can run at; the last instant only bounds expiries.
ClockIdx == 1..(Len(Times) - 1)

DigitChars == <<"0", "1", "2", "3", "4", "5", "6", "7", "8", "9">>

Pow10(k) == IF k = 0 THEN 1 ELSE IF k = 1 THEN 10 ELSE IF k = 2 THEN 100 ELSE 1000

\* n as w zero-padded decimal characters (%Y, %m, %d, %H, %M, %S).
Pad(n, w) == [i \in 1..w |-> DigitChars[((n \div Pow10(w - i)) % 10) + 1]]

\* strftime(DATETIME_FMT) of (y, mo, d, h, mi, s): "%Y-%m-%dT%H:%M:%SZ".
Format(y, mo, d, h, mi, s) ==
    Pad(y, 4) \o <<"-">> \o Pad(mo, 2) \o <<"-">> \o Pad(d, 2) \o <<"T">>
      \o Pad(h, 2) \o <<":">> \o Pad(mi, 2) \o <<":">> \o Pad(s, 2) \o <<"Z">>

\* datetime.strftime(DATETIME_FMT)
strftime(dt) == Format(dt.year, dt.month, dt.day, dt.hour, dt.minute, dt.second)

\* date.strftime(DATETIME_FMT): a date has no time of day, %H:%M:%S give 00:00:00.
date_strftime(d) == Format(d.year, d.month, d.day, 0, 0, 0)

\* datetime.date()
DateOf(dt) == [year |-> dt.year, month |-> dt.month, day |-> dt.day]

\* Character codes (ASCII) of the characters DATETIME_FMT produces.
Ord(c) ==
    CASE c = "-" -> 45
      [] c = "0" -> 48 [] c = "1" -> 49 [] c = "2" -> 50 [] c = "3" -> 51
      [] c = "4" -> 52 [] c = "5" -> 53 [] c = "6" -> 54 [] c = "7" -> 55
      [] c = "8" -> 56 [] c = "9" -> 57
      [] c = ":" -> 58
      [] c = "T" -> 84
      [] c = "Z" -> 90

\* Value of the decimal characters s[from..to].
RECURSIVE Num(_, _, _)
Num(s, from, to) ==
    IF to < from THEN 0 ELSE Num(s, from, to - 1) * 10 + (Ord(s[to]) - 48)

\* strptime(s, "%Y-%m-%dT%H:%M:%SZ")
strptime(s) ==
    DT(Num(s, 1, 4), Num(s, 6, 7), Num(s, 9, 10),
       Num(s, 12, 13), Num(s, 15, 16), Num(s, 18, 19))

\* Position of a date-time's day and of its time of day (order-preserving keys).
DayKey(dt) == (dt.year * 13 + dt.month) * 32 + dt.day
SecKey(dt) == (dt.hour * 60 + dt.minute) * 60 + dt.second

\* a is not later than b.
DtLeq(a, b) ==
    \/ DayKey(a) < DayKey(b)
    \/ DayKey(a) = DayKey(b) /\ SecKey(a) <= SecKey(b)

\* The order of two timestamp strings as the instants they denote.
TimeLeq(a, b) == DtLeq(strptime(a.val), strptime(b.val))

(* ------------------------------------------------------------------ *)
(* Credentials (google.oauth2.credentials.Credentials) and token file  *)
(* ------------------------------------------------------------------ *)

\* No file at TOKEN_PATH.
NoFile == [tag |-> "nofile"]

\* Credentials.expired at instant now: an expiry is set and has passed.
expired(c, now) == c.expiry # None /\ DtLeq(c.expiry, now)

\* Credentials.valid at instant now: an access token is held and not expired.
valid(c, now) == c.token # None /\ ~expired(c, now)

\* creds.to_json(): the expiry is written as text.
to_json(c) ==
    [token |-> c.token, refresh_token |-> c.refresh_token,
     expiry |-> IF c.expiry = None THEN None ELSE Str(strftime(c.expiry))]

\* Credentials.from_authorized_user_file(TOKEN_PATH, SCOPES): the expiry is parsed.
from_authorized_user_file(f) ==
    [token |-> f.token, refresh_token |-> f.refresh_token,
     expiry |-> IF f.expiry = None THEN None ELSE strptime(f.expiry.val)]

\* Mutation of line 58: the `not creds` test is lost.
NeedsAuth_OnlyInvalid(c, now) == c # None /\ ~valid(c, now)

\* Mutation of line 58: the second `not` is lost.
NeedsAuth_Inverted(c, now) == c = None \/ valid(c, now)

\* Line 58: `not creds or not creds.valid`.
NeedsAuth(c, now) == c = None \/ ~valid(c, now)

\* Mutation of line 59: creds.valid is tested where creds.expired is meant.
CanRefresh_WhenValid(c, now) == c # None /\ valid(c, now) /\ c.refresh_token # None

\* Line 59: `creds and creds.expired and creds.refresh_token`.
CanRefresh(c, now) == c # None /\ expired(c, now) /\ c.refresh_token # None

\* An access token issued by the authorization server, the n-th of the run.
AccessToken(n) == [tag |-> "access_token", id |-> n]

\* Refresh tokens: one the authorization server honours, one it has revoked.
RefreshLive == Str("refresh-live")
RefreshRevoked == Str("refresh-revoked")

\* Credentials the token file may hold when the program starts.
Creds(t, r, e) == [token |-> t, refresh_token |-> r, expiry |-> e]

InitCreds ==
    { Creds(AccessToken(0), None, None),
      Creds(AccessToken(0), RefreshLive, Times[2]),
      Creds(AccessToken(0), RefreshRevoked, Times[2]),
      Creds(AccessToken(0), None, Times[2]),
      Creds(AccessToken(0), RefreshLive, Times[4]),
      Creds(None, RefreshLive, None) }

InitTokenFiles == {NoFile} \cup { to_json(c) : c \in InitCreds }

(* ------------------------------------------------------------------ *)
(* get_events: defaults, request, result                               *)
(* ------------------------------------------------------------------ *)

\* Line 30: the default arguments of get_events and get_todays_events.
DefaultCalendarId == "primary"
DefaultMaxResults == 10

\* Line 73: the far-future sentinel "2038-12-31T23:59:59Z".
Sentinel == Str(Format(2038, 12, 31, 23, 59, 59))

\* Mutation of lines 70-71: the default is the start of the current day.
DefaultStart_Midnight(start_time, now) ==
    IF ~Truthy(start_time) THEN Str(date_strftime(DateOf(now))) ELSE start_time

\* Lines 70-71: a falsy start_time becomes the current timestamp.
DefaultStart(start_time, now) ==
    IF ~Truthy(start_time) THEN Str(strftime(now)) ELSE start_time

\* Lines 72-73: a falsy end_time becomes the sentinel.
DefaultEnd(end_time) ==
    IF ~Truthy(end_time) THEN Sentinel ELSE end_time

\* Mutation of lines 83-84: the two bounds are exchanged.
ListRequest_Swapped(calendar_id, start_time, end_time, max_results) ==
    [calendarId |-> calendar_id, timeMin |-> end_time, timeMax |-> start_time,
     maxResults |-> max_results, singleEvents |-> TRUE, orderBy |-> "startTime"]

\* Lines 81-88: the parameters of service.events().list(...).
ListRequest(calendar_id, start_time, end_time, max_results) ==
    [calendarId |-> calendar_id, timeMin |-> start_time, timeMax |-> end_time,
     maxResults |-> max_results, singleEvents |-> TRUE, orderBy |-> "startTime"]

\* Event resources the remote service may return.
Ev1 == [start |-> [dateTime |-> "2024-06-15T10:00:00+09:00"], summary |-> "standup"]
Ev2 == [start |-> [date |-> "2024-06-16"], summary |-> "holiday"]

\* Responses of a successful list call; "items" may be absent.
Responses ==
    { [kind |-> "calendar#events"] } \cup
    { [kind |-> "calendar#events", items |-> s] :
        s \in {<<>>, <<Ev1, Ev2>>, <<Ev2, Ev1>>} }

\* Mutation of line 91: only the first item is kept.
ItemsOf_FirstOnly(resp) ==
    IF "items" \in DOMAIN resp /\ resp.items # <<>> THEN <<resp.items[1]>> ELSE <<>>

\* Line 91: events_result.get("items", []).
ItemsOf(resp) == IF "items" \in DOMAIN resp THEN resp.items ELSE <<>>

\* Lines 98-99: the handler prints and falls off the end of the function,
\* so the call returns None.
HttpErrorReturn == None

\* Lines 131/138: event["start"].get("dateTime", event["start"].get("date")).
StartOf(event) ==
    IF "dateTime" \in DOMAIN event.start THEN event.start.dateTime
    ELSE event.start.date

\* Lines 130-132 / 137-139: one printed line per event.
EventLines(events) == [i \in 1..Len(events) |-> <<StartOf(events[i]), events[i].summary>>]

\* Mutation of line 120: the date-time is formatted, not its date.
TodayStart_WithTime(today) == Str(strftime(today))

\* Line 120: today.date().strftime(DATETIME_FMT).
TodayStart(today) == Str(date_strftime(DateOf(today)))

\* Line 121: datetime(today.year, today.month, today.day, 23, 59, 59).strftime(...).
TodayEnd(today) == Str(strftime(DT(today.year, today.month, today.day, 23, 59, 59)))

(* ------------------------------------------------------------------ *)
(* Inputs                                                              *)
(* ------------------------------------------------------------------ *)

\* Top-level operations (direct calls and runs of the entry program) per behaviour.
MaxCalls == 2

\* The (calendar_id, max_results) pairs a caller may pass.
CallerChoices == { <<DefaultCalendarId, DefaultMaxResults>>, <<"work", 3>> }

\* Bounds a caller may pass: omitted, empty, or a DATETIME_FMT timestamp.
BoundArgs ==
    { None, Str(<<>>),
      Str(Format(2020, 2, 29, 8, 30, 0)),
      Str(Format(2040, 1, 1, 0, 0, 0)) }

(* ------------------------------------------------------------------ *)
(* State                                                               *)
(* ------------------------------------------------------------------ *)

VARIABLES
    clock,        \* position of the wall clock in Times
    tokenFile,    \* content of the file at TOKEN_PATH, or NoFile
    issued,       \* access tokens the authorization server has issued
    calls,        \* top-level operations started so far
    mainPc,       \* position of the entry program (lines 126-139)
    todayPc,      \* position of get_todays_events (lines 119-123)
    pc,           \* position of get_events (lines 51-99)
    args,         \* the arguments get_events was called with
    start_time,   \* get_events' local start_time
    end_time,     \* get_events' local end_time
    creds,        \* get_events' local creds
    ret,          \* value returned by the last get_events call
    exc,          \* exception propagating out of the current operation, or "none"
    requests,     \* list requests sent by the running top-level operation
    responses,    \* what the remote service answered to each of them
    stdout,       \* lines printed by the running top-level operation
    nRefresh,     \* creds.refresh calls made by the current get_events call
    nFlow,        \* run_local_server calls made by the current get_events call
    nWrite,       \* writes of TOKEN_PATH made by the current get_events call
    nList,        \* list requests sent by the current get_events call
    loaded,       \* creds as loaded at line 56 by the current call (None if no file)
    loadClock,    \* clock when lines 58-59 were evaluated by the current call
    fileAtCall,   \* tokenFile when the current get_events call began
    persisted,    \* in-memory creds last written to TOKEN_PATH by get_events, or None
    persistedAtCall, \* persisted when the current get_events call began
    nowRead,      \* clock when line 71 was reached by the current call (0 before)
    geCalls,      \* get_events calls entered by the running top-level operation
    todayArgs,    \* arguments and date read of the running get_todays_events call
    todayRet      \* value get_todays_events returned

vars ==
    << clock, tokenFile, issued, calls, mainPc, todayPc, pc, args, start_time,
       end_time, creds, ret, exc, requests, responses, stdout, nRefresh, nFlow,
       nWrite, nList, loaded, loadClock, fileAtCall, persisted, persistedAtCall,
       nowRead, geCalls, todayArgs, todayRet >>

Now == Times[clock]

NoArgs ==
    [calendar_id |-> DefaultCalendarId, start_time |-> None, end_time |-> None,
     max_results |-> DefaultMaxResults]

Idle == mainPc = "off" /\ todayPc = "off" /\ pc = "off"

Init ==
    /\ clock \in ClockIdx
    /\ tokenFile \in InitTokenFiles
    /\ issued = 0
    /\ calls = 0
    /\ mainPc = "off"
    /\ todayPc = "off"
    /\ pc = "off"
    /\ args = NoArgs
    /\ start_time = None
    /\ end_time = None
    /\ creds = None
    /\ ret = None
    /\ exc = "none"
    /\ requests = <<>>
    /\ responses = <<>>
    /\ stdout = <<>>
    /\ nRefresh = 0
    /\ nFlow = 0
    /\ nWrite = 0
    /\ nList = 0
    /\ loaded = None
    /\ loadClock = 0
    /\ fileAtCall = NoFile
    /\ persisted = None
    /\ persistedAtCall = None
    /\ nowRead = 0
    /\ geCalls = 0
    /\ todayArgs = None
    /\ todayRet = None

\* Entering get_events (line 30): bind the arguments, start at line 51.
EnterGetEvents(calendar_id, st, en, max_results) ==
    /\ pc' = "load"
    /\ args' = [calendar_id |-> calendar_id, start_time |-> st, end_time |-> en,
                max_results |-> max_results]
    /\ start_time' = st
    /\ end_time' = en
    /\ creds' = None
    /\ ret' = None
    /\ exc' = "none"
    /\ nRefresh' = 0
    /\ nFlow' = 0
    /\ nWrite' = 0
    /\ nList' = 0
    /\ loaded' = None
    /\ loadClock' = 0
    /\ fileAtCall' = tokenFile
    /\ persistedAtCall' = persisted
    /\ nowRead' = 0
    /\ geCalls' = geCalls + 1

\* Lines 119-123 of get_todays_events up to the call of get_events.
EnterTodaysEvents(calendar_id, max_results, out) ==
    LET today == Now
        st == TodayStart(today)
        en == TodayEnd(today)
    IN /\ todayPc' = "calling"
       /\ todayArgs' = [calendar_id |-> calendar_id, max_results |-> max_results,
                        today |-> clock]
       /\ todayRet' = None
       /\ stdout' = Append(out, en.val)
       /\ EnterGetEvents(calendar_id, st, en, max_results)

\* A caller starts get_events(calendar_id, start_time, end_time, max_results).
CallGetEvents ==
    /\ Idle
    /\ calls < MaxCalls
    /\ \E cm \in CallerChoices, st \in BoundArgs, en \in BoundArgs :
          EnterGetEvents(cm[1], st, en, cm[2])
    /\ calls' = calls + 1
    /\ UNCHANGED << clock, tokenFile, issued, mainPc, todayPc, requests, responses,
                    stdout, persisted,
                    todayArgs, todayRet >>

\* A caller starts get_todays_events(calendar_id, max_results).
CallTodaysEvents ==
    /\ Idle
    /\ calls < MaxCalls
    /\ \E cm \in CallerChoices : EnterTodaysEvents(cm[1], cm[2], stdout)
    /\ calls' = calls + 1
    /\ UNCHANGED << clock, tokenFile, issued, mainPc, requests, responses, persisted >>

\* Lines 51-59: load the token file if it exists, then choose the branch.
LoadCreds ==
    /\ pc = "load"
    /\ LET c == IF tokenFile # NoFile THEN from_authorized_user_file(tokenFile) ELSE None
       IN /\ creds' = c
          /\ loaded' = c
          /\ loadClock' = clock
          /\ pc' = IF NeedsAuth(c, Now)
                   THEN (IF CanRefresh(c, Now) THEN "refresh" ELSE "flow")
                   ELSE "defaults"
    /\ UNCHANGED << clock, tokenFile, issued, calls, mainPc, todayPc, args, start_time,
                    end_time, ret, exc, requests, responses, stdout, nRefresh, nFlow,
                    nWrite, nList, fileAtCall, persisted,
                    nowRead, persistedAtCall, geCalls, todayArgs, todayRet >>

\* Line 60, creds.refresh(Request()) succeeds: a new access token and expiry.
RefreshOk ==
    /\ pc = "refresh"
    /\ creds.refresh_token = RefreshLive
    /\ issued' = issued + 1
    /\ creds' = [creds EXCEPT !.token = AccessToken(issued + 1),
                              !.expiry = Times[clock + 1]]
    /\ nRefresh' = nRefresh + 1
    /\ pc' = "save"
    /\ UNCHANGED << clock, tokenFile, calls, mainPc, todayPc, args, start_time,
                    end_time, ret, exc, requests, responses, stdout, nFlow, nWrite,
                    nList, loaded, loadClock, fileAtCall, persisted,
                    nowRead, persistedAtCall, geCalls, todayArgs, todayRet >>

\* Mutation of line 60: a failed refresh is caught and the interactive flow runs.
RefreshFails_FallsBack ==
    /\ pc = "refresh"
    /\ nRefresh' = nRefresh + 1
    /\ pc' = "flow"
    /\ UNCHANGED << clock, tokenFile, issued, calls, mainPc, todayPc, args, start_time,
                    end_time, creds, ret, exc, requests, responses, stdout, nFlow, nWrite,
                    nList, loaded, loadClock, fileAtCall, persisted,
                    nowRead, persistedAtCall, geCalls, todayArgs, todayRet >>

\* Line 60, creds.refresh(Request()) raises RefreshError (revoked token, or the
\* token endpoint is unreachable); nothing catches it.
RefreshFails ==
    /\ pc = "refresh"
    /\ nRefresh' = nRefresh + 1
    /\ exc' = "RefreshError"
    /\ pc' = "raised"
    /\ UNCHANGED << clock, tokenFile, issued, calls, mainPc, todayPc, args, start_time,
                    end_time, creds, ret, requests, responses, stdout, nFlow, nWrite,
                    nList, loaded, loadClock, fileAtCall, persisted,
                    nowRead, persistedAtCall, geCalls, todayArgs, todayRet >>

\* Lines 62-65, the interactive flow completes: fresh credentials.
FlowOk ==
    /\ pc = "flow"
    /\ issued' = issued + 1
    /\ creds' = [token |-> AccessToken(issued + 1), refresh_token |-> RefreshLive,
                 expiry |-> Times[clock + 1]]
    /\ nFlow' = nFlow + 1
    /\ pc' = "save"
    /\ UNCHANGED << clock, tokenFile, calls, mainPc, todayPc, args, start_time,
                    end_time, ret, exc, requests, responses, stdout, nRefresh, nWrite,
                    nList, loaded, loadClock, fileAtCall, persisted,
                    nowRead, persistedAtCall, geCalls, todayArgs, todayRet >>

\* Lines 62-65, the client secrets are unreadable or the flow cannot complete:
\* the library's exception leaves get_events.
FlowFails ==
    /\ pc = "flow"
    /\ nFlow' = nFlow + 1
    /\ exc' = "AuthError"
    /\ pc' = "raised"
    /\ UNCHANGED << clock, tokenFile, issued, calls, mainPc, todayPc, args, start_time,
                    end_time, creds, ret, requests, responses, stdout, nRefresh, nWrite,
                    nList, loaded, loadClock, fileAtCall, persisted,
                    nowRead, persistedAtCall, geCalls, todayArgs, todayRet >>

\* Lines 67-68: overwrite TOKEN_PATH with creds.to_json().
SaveToken ==
    /\ pc = "save"
    /\ tokenFile' = to_json(creds)
    /\ persisted' = creds
    /\ nWrite' = nWrite + 1
    /\ pc' = "defaults"
    /\ UNCHANGED << clock, issued, calls, mainPc, todayPc, args, start_time, end_time,
                    creds, ret, exc, requests, responses, stdout, nRefresh, nFlow,
                    nList, loaded, loadClock, fileAtCall,
                    nowRead, persistedAtCall, geCalls, todayArgs, todayRet >>

\* Lines 70-73: default the bounds.
ApplyDefaults ==
    /\ pc = "defaults"
    /\ start_time' = DefaultStart(start_time, Now)
    /\ nowRead' = clock
    /\ end_time' = DefaultEnd(end_time)
    /\ pc' = "list"
    /\ UNCHANGED << clock, tokenFile, issued, calls, mainPc, todayPc, args, creds, ret,
                    exc, requests, responses, stdout, nRefresh, nFlow, nWrite, nList,
                    loaded, loadClock, fileAtCall, persisted,
                    persistedAtCall, geCalls, todayArgs, todayRet >>

\* The request lines 79-90 send.
CurrentRequest == ListRequest(args.calendar_id, start_time, end_time, args.max_results)

\* Lines 75-96, the list call succeeds: return the response's items.
ListOk ==
    /\ pc = "list"
    /\ \E resp \in Responses :
         LET events == ItemsOf(resp)
         IN /\ responses' = Append(responses, resp)
            /\ stdout' = stdout \o <<  <<"Getting the upcoming 10 events">> >>
                           \o (IF events = <<>> THEN << <<"No upcoming events found.">> >>
                               ELSE <<>>)
            /\ ret' = List(events)
    /\ requests' = Append(requests, CurrentRequest)
    /\ nList' = nList + 1
    /\ pc' = "returned"
    /\ UNCHANGED << clock, tokenFile, issued, calls, mainPc, todayPc, args, start_time,
                    end_time, creds, exc, nRefresh, nFlow, nWrite, loaded, loadClock,
                    fileAtCall, persisted,
                    nowRead, persistedAtCall, geCalls, todayArgs, todayRet >>

\* Lines 75-99, the list call raises HttpError: print it, fall off the end.
ListHttpError ==
    /\ pc = "list"
    /\ requests' = Append(requests, CurrentRequest)
    /\ responses' = Append(responses, [error |-> "HttpError"])
    /\ nList' = nList + 1
    /\ stdout' = stdout \o << <<"Getting the upcoming 10 events">>,
                              <<"An error occurred: ", "HttpError">> >>
    /\ ret' = HttpErrorReturn
    /\ pc' = "returned"
    /\ UNCHANGED << clock, tokenFile, issued, calls, mainPc, todayPc, args, start_time,
                    end_time, creds, exc, nRefresh, nFlow, nWrite, loaded, loadClock,
                    fileAtCall, persisted,
                    nowRead, persistedAtCall, geCalls, todayArgs, todayRet >>

\* Lines 75-90, the list call raises something that is not an HttpError (the
\* transport cannot reach the server): `except HttpError` does not catch it.
ListTransportError ==
    /\ pc = "list"
    /\ requests' = Append(requests, CurrentRequest)
    /\ responses' = Append(responses, [error |-> "TransportError"])
    /\ nList' = nList + 1
    /\ stdout' = Append(stdout, <<"Getting the upcoming 10 events">>)
    /\ exc' = "TransportError"
    /\ pc' = "raised"
    /\ UNCHANGED << clock, tokenFile, issued, calls, mainPc, todayPc, args, start_time,
                    end_time, creds, ret, nRefresh, nFlow, nWrite, loaded, loadClock,
                    fileAtCall, persisted,
                    nowRead, persistedAtCall, geCalls, todayArgs, todayRet >>

\* Line 123: get_todays_events returns what get_events returned (or lets its
\* exception through).
TodaysEventsReturn ==
    /\ todayPc = "calling"
    /\ pc \in {"returned", "raised"}
    /\ todayPc' = pc
    /\ todayRet' = ret
    /\ pc' = "off"
    /\ UNCHANGED << clock, tokenFile, issued, calls, mainPc, args, start_time, end_time,
                    creds, ret, exc, requests, responses, stdout, nRefresh, nFlow,
                    nWrite, nList, loaded, loadClock, fileAtCall, persisted,
                    nowRead, persistedAtCall, geCalls, todayArgs >>

\* The frames are popped, the locals are gone, and the operation's requests and
\* output are no longer observed.
BackToIdle ==
    /\ mainPc' = "off"
    /\ todayPc' = "off"
    /\ pc' = "off"
    /\ args' = NoArgs
    /\ start_time' = None
    /\ end_time' = None
    /\ creds' = None
    /\ ret' = None
    /\ exc' = "none"
    /\ nRefresh' = 0
    /\ nFlow' = 0
    /\ nWrite' = 0
    /\ nList' = 0
    /\ loaded' = None
    /\ loadClock' = 0
    /\ fileAtCall' = NoFile
    /\ persistedAtCall' = None
    /\ nowRead' = 0
    /\ geCalls' = 0
    /\ todayArgs' = None
    /\ todayRet' = None
    /\ requests' = <<>>
    /\ responses' = <<>>
    /\ stdout' = <<>>

\* The caller of a direct call takes the result (or the exception).
CallerReceives ==
    /\ mainPc = "off"
    /\ \/ todayPc \in {"returned", "raised"}
       \/ todayPc = "off" /\ pc \in {"returned", "raised"}
    /\ BackToIdle
    /\ UNCHANGED << clock, tokenFile, issued, calls, persisted >>

\* Line 127: the entry program calls get_events().
MainFirstQuery ==
    /\ Idle
    /\ calls < MaxCalls
    /\ mainPc' = "q1"
    /\ EnterGetEvents(DefaultCalendarId, None, None, DefaultMaxResults)
    /\ calls' = calls + 1
    /\ UNCHANGED << clock, tokenFile, issued, todayPc, requests, responses, stdout,
                    persisted,
                    todayArgs, todayRet >>

\* Lines 129-132 (and 136-139): the header, then one line per event; iterating
\* over None raises TypeError after the header is out.
PrintEvents(header, next) ==
    IF ret = None
    THEN /\ stdout' = Append(stdout, <<header>>)
         /\ exc' = "TypeError"
         /\ mainPc' = "crashed"
    ELSE /\ stdout' = Append(stdout, <<header>>) \o EventLines(ret.val)
         /\ exc' = exc
         /\ mainPc' = next

\* Lines 127-132: the first query's result is printed.
MainPrintFirst ==
    /\ mainPc = "q1"
    /\ pc = "returned"
    /\ PrintEvents("upcoming primary events:", "q2")
    /\ pc' = "off"
    /\ UNCHANGED << clock, tokenFile, issued, calls, todayPc, args, start_time,
                    end_time, creds, ret, requests, responses, nRefresh, nFlow, nWrite,
                    nList, loaded, loadClock, fileAtCall, persisted,
                    nowRead, persistedAtCall, geCalls, todayArgs, todayRet >>

\* Line 134: the entry program calls get_todays_events().
MainSecondQuery ==
    /\ mainPc = "q2"
    /\ todayPc = "off"
    /\ pc = "off"
    /\ EnterTodaysEvents(DefaultCalendarId, DefaultMaxResults, stdout)
    /\ UNCHANGED << clock, tokenFile, issued, calls, mainPc, requests, responses,
                    persisted >>

\* Lines 134-139: the second query's result is printed and the program ends.
MainPrintSecond ==
    /\ mainPc = "q2"
    /\ todayPc = "returned"
    /\ PrintEvents("upcoming today's primary events:", "done")
    /\ todayPc' = "off"
    /\ UNCHANGED << clock, tokenFile, issued, calls, pc, args, start_time, end_time,
                    creds, ret, requests, responses, nRefresh, nFlow, nWrite, nList,
                    loaded, loadClock, fileAtCall, persisted,
                    nowRead, persistedAtCall, geCalls, todayArgs, todayRet >>

\* An exception leaves get_events or get_todays_events inside the entry
\* program: nothing catches it and the run aborts.
MainUncaught ==
    /\ mainPc \in {"q1", "q2"}
    /\ \/ todayPc = "off" /\ pc = "raised"
       \/ todayPc = "raised"
    /\ mainPc' = "crashed"
    /\ todayPc' = "off"
    /\ pc' = "off"
    /\ UNCHANGED << clock, tokenFile, issued, calls, args, start_time, end_time, creds,
                    ret, exc, requests, responses, stdout, nRefresh, nFlow, nWrite,
                    nList, loaded, loadClock, fileAtCall, persisted,
                    nowRead, persistedAtCall, geCalls, todayArgs, todayRet >>

\* The entry program's process is gone.
MainExit ==
    /\ mainPc \in {"done", "crashed"}
    /\ BackToIdle
    /\ UNCHANGED << clock, tokenFile, issued, calls, persisted >>

\* Time passes.
Tick ==
    /\ clock + 1 \in ClockIdx
    /\ clock' = clock + 1
    /\ UNCHANGED << tokenFile, issued, calls, mainPc, todayPc, pc, args, start_time,
                    end_time, creds, ret, exc, requests, responses, stdout, nRefresh,
                    nFlow, nWrite, nList, loaded, loadClock, fileAtCall, persisted,
                    nowRead, persistedAtCall, geCalls, todayArgs, todayRet >>

Next ==
    \/ CallGetEvents
    \/ CallTodaysEvents
    \/ LoadCreds
    \/ RefreshOk
    \/ RefreshFails
    \/ FlowOk
    \/ FlowFails
    \/ SaveToken
    \/ ApplyDefaults
    \/ ListOk
    \/ ListHttpError
    \/ ListTransportError
    \/ TodaysEventsReturn
    \/ CallerReceives
    \/ MainFirstQuery
    \/ MainPrintFirst
    \/ MainSecondQuery
    \/ MainPrintSecond
    \/ MainUncaught
    \/ MainExit
    \/ Tick

Spec == Init /\ [][Next]_vars

(* ------------------------------------------------------------------ *)
(* Properties                                                          *)
(* ------------------------------------------------------------------ *)

\* The request sent and the answer received by the current get_events call.
LastRequest == requests[Len(requests)]
LastResponse == responses[Len(responses)]

\* The current get_events call has evaluated lines 55-59.
CredsChecked == loadClock > 0

\* The current get_events call has got past the credential step (line 70 on).
PastCredentialStep == pc \in {"defaults", "list"} \/ nList > 0

\* C1: when the list call fails with HttpError, get_events prints the error,
\* returns an empty sequence and raises nothing.
C1_HttpErrorGivesEmptySequence ==
    (nList = 1 /\ LastResponse = [error |-> "HttpError"])
      => /\ ret = List(<<>>)
         /\ exc = "none"
         /\ \E i \in 1..Len(stdout) : stdout[i] = <<"An error occurred: ", "HttpError">>

\* C2: a run of the entry program whose authentication succeeded issues both
\* queries, prints both headers and ends normally, also when a list call
\* failed with a query error.
C2_EntryProgramRunsBothQueries ==
    (mainPc \in {"done", "crashed"} /\ exc \notin {"RefreshError", "AuthError", "TransportError"})
      => /\ mainPc = "done"
         /\ Len(requests) = 2
         /\ requests[1].timeMax = Sentinel
         /\ requests[2].timeMax # Sentinel
         /\ \E i \in 1..Len(stdout) : stdout[i] = <<"upcoming primary events:">>
         /\ \E i \in 1..Len(stdout) : stdout[i] = <<"upcoming today's primary events:">>

\* The token loaded by the current call is expired and carries a refresh token.
LoadedExpiredRefreshable ==
    /\ CredsChecked
    /\ loaded # None
    /\ ~valid(loaded, Times[loadClock])
    /\ expired(loaded, Times[loadClock])
    /\ loaded.refresh_token # None

\* The refresh of the current call was attempted and did not renew the credentials.
RefreshFailed == LoadedExpiredRefreshable /\ nRefresh = 1 /\ creds = loaded

\* C3 as stated: after a failed refresh the credential step falls back to the
\* interactive flow instead of ending the call with the refresh failure.
C3_RefreshFailureFallsBackToFlow ==
    RefreshFailed => (exc # "RefreshError" /\ (pc = "flow" \/ nFlow = 1))

\* C3 amended: after a failed refresh the call ends with the refresh failure;
\* no interactive flow runs, the token file is not written, no request is sent.
C3_RefreshFailureEndsCall ==
    RefreshFailed
      => /\ exc = "RefreshError"
         /\ pc = "raised" \/ todayPc = "raised" \/ mainPc = "crashed"
         /\ nFlow = 0
         /\ nWrite = 0
         /\ nList = 0
         /\ tokenFile = fileAtCall

C3_Witness == RefreshFailed /\ pc = "raised" /\ loaded.refresh_token = RefreshRevoked

\* C4: a call that loads an expired token with a live refresh token attempts a
\* refresh, never the interactive flow, and reaches the list call only after
\* one refresh and one write of the refreshed token to the token path.
C4_ExpiredTokenIsRefreshedAndSaved ==
    (LoadedExpiredRefreshable /\ loaded.refresh_token = RefreshLive)
      => /\ nFlow = 0
         /\ pc # "flow"
         /\ pc = "refresh" \/ nRefresh = 1
         /\ PastCredentialStep
              => /\ nRefresh = 1
                 /\ nWrite = 1
                 /\ creds.token # loaded.token
                 /\ tokenFile = to_json(creds)
                 /\ tokenFile # fileAtCall

C4_Witness ==
    /\ LoadedExpiredRefreshable
    /\ loaded.refresh_token = RefreshLive
    /\ pc = "returned"
    /\ nList = 1
    /\ nWrite = 1

\* C5: a call that finds no token file runs the interactive flow exactly once,
\* attempts no refresh, and writes the obtained token once before the list call.
C5_NoTokenFileRunsFlowOnce ==
    (CredsChecked /\ fileAtCall = NoFile)
      => /\ nRefresh = 0
         /\ pc # "refresh"
         /\ pc = "flow" \/ nFlow = 1
         /\ nWrite <= 1
         /\ (nFlow = 1 /\ exc = "none") => (pc = "save" \/ nWrite = 1)
         /\ PastCredentialStep
              => /\ nFlow = 1
                 /\ nWrite = 1
                 /\ tokenFile = to_json(creds)
                 /\ tokenFile # NoFile

C5_Witness == CredsChecked /\ fileAtCall = NoFile /\ pc = "returned" /\ nList = 1 /\ nWrite = 1

\* The current call began with a token file that an earlier call persisted.
ReloadsPersisted == CredsChecked /\ persistedAtCall # None

\* C6: a token persisted by one call and reloaded by a later one while still
\* valid is judged valid, triggers no refresh and no flow, and leaves the file
\* alone; the file is written only by calls that refreshed or newly obtained
\* the credential.
C6_PersistedTokenReloadsValid ==
    /\ ReloadsPersisted
         => /\ fileAtCall = to_json(persistedAtCall)
            /\ \A t \in ClockIdx :
                 valid(loaded, Times[t]) = valid(persistedAtCall, Times[t])
    /\ (ReloadsPersisted /\ valid(persistedAtCall, Times[loadClock]))
         => /\ nRefresh = 0
            /\ nFlow = 0
            /\ nWrite = 0
            /\ pc \notin {"refresh", "flow", "save"}
            /\ tokenFile = fileAtCall
    /\ nWrite <= 1
    /\ nWrite = 1 => (nRefresh + nFlow = 1 /\ creds # loaded)
    /\ (pc # "off" /\ tokenFile # fileAtCall) => nWrite = 1

C6_Witness ==
    /\ ReloadsPersisted
    /\ valid(persistedAtCall, Times[loadClock])
    /\ pc = "returned"
    /\ nList = 1

\* C7 as stated: every list request has timeMin <= timeMax.
C7_EveryRequestOrdered ==
    \A i \in 1..Len(requests) : TimeLeq(requests[i].timeMin, requests[i].timeMax)

\* The bounds the caller gave, the sentinel and the current time are in order.
InputsOrdered ==
    LET st == args.start_time
        en == args.end_time
        now == Str(strftime(Times[nowRead]))
    IN CASE Truthy(st) /\ Truthy(en) -> TimeLeq(st, en)
         [] Truthy(st) /\ ~Truthy(en) -> TimeLeq(st, Sentinel)
         [] ~Truthy(st) /\ Truthy(en) -> TimeLeq(now, en)
         [] OTHER -> TimeLeq(now, Sentinel)

\* C7 amended: a request sent through get_todays_events has timeMin <= timeMax;
\* a request of any other call has it when the caller's bounds, the sentinel
\* and the current time are in order (get_events checks nothing).
C7_RequestOrderedWhenInputsAre ==
    nList = 1
      => /\ todayPc # "off" => TimeLeq(LastRequest.timeMin, LastRequest.timeMax)
         /\ InputsOrdered => TimeLeq(LastRequest.timeMin, LastRequest.timeMax)

C7_Witness ==
    /\ nList = 1
    /\ todayPc = "calling"
    /\ pc = "returned"
    /\ LastRequest.timeMin # LastRequest.timeMax

\* C8: each bound is defaulted on its own: a missing start_time becomes the
\* current timestamp, a missing end_time the sentinel 2038-12-31T23:59:59Z, a
\* given bound is sent as given; get_events() asks for the primary calendar
\* from now to the sentinel with at most 10 results.
C8_DefaultsAppliedIndependently ==
    nList = 1
      => /\ LastRequest.timeMin =
              (IF Truthy(args.start_time) THEN args.start_time
               ELSE Str(strftime(Times[nowRead])))
         /\ LastRequest.timeMax =
              (IF Truthy(args.end_time) THEN args.end_time
               ELSE Str(<<"2", "0", "3", "8", "-", "1", "2", "-", "3", "1", "T",
                          "2", "3", ":", "5", "9", ":", "5", "9", "Z">>))
         /\ args = NoArgs
              => /\ LastRequest.calendarId = "primary"
                 /\ LastRequest.maxResults = 10
                 /\ LastRequest.timeMin = Str(strftime(Times[nowRead]))
                 /\ LastRequest.timeMax = Sentinel

C8_Witness ==
    /\ nList = 1
    /\ args.start_time = None
    /\ Truthy(args.end_time)
    /\ LastRequest.timeMin = Str(strftime(Times[2]))
    /\ LastRequest.timeMax = args.end_time

\* C9: get_todays_events(calendar_id, max_results) calls get_events once, with
\* the same calendar_id and max_results and the bounds D 00:00:00 and
\* D 23:59:59 of the current local date D, and returns that call's result.
C9_TodayDelegatesWithDayBounds ==
    todayPc # "off"
      => LET D == Times[todayArgs.today]
         IN /\ args = [calendar_id |-> todayArgs.calendar_id,
                       start_time |-> Str(Format(D.year, D.month, D.day, 0, 0, 0)),
                       end_time |-> Str(Format(D.year, D.month, D.day, 23, 59, 59)),
                       max_results |-> todayArgs.max_results]
            /\ (D.year = 2024 /\ D.month = 6 /\ D.day = 15)
                 => /\ args.start_time.val =
                         <<"2", "0", "2", "4", "-", "0", "6", "-", "1", "5", "T",
                           "0", "0", ":", "0", "0", ":", "0", "0", "Z">>
                    /\ args.end_time.val =
                         <<"2", "0", "2", "4", "-", "0", "6", "-", "1", "5", "T",
                           "2", "3", ":", "5", "9", ":", "5", "9", "Z">>
            /\ geCalls = (IF mainPc = "off" THEN 1 ELSE 2)
            /\ todayPc = "calling" => pc # "off"
            /\ todayPc = "returned" => (pc = "off" /\ todayRet = ret)
            /\ nList = 1
                 => /\ LastRequest.timeMin = args.start_time
                    /\ LastRequest.timeMax = args.end_time

C9_Witness ==
    /\ todayPc = "returned"
    /\ todayArgs.today = 2
    /\ todayArgs.calendar_id = "work"
    /\ todayRet = List(<<Ev1, Ev2>>)

\* C10: a call with both bounds given, start_time <= end_time, whose list call
\* succeeds sends exactly one request, carrying that calendar id, window and
\* max_results with singleEvents and orderBy=startTime, and returns the
\* response's items unchanged (empty when there are none).
C10_WindowRequestedItemsReturned ==
    (/\ pc = "returned"
     /\ Truthy(args.start_time)
     /\ Truthy(args.end_time)
     /\ TimeLeq(args.start_time, args.end_time)
     /\ "error" \notin DOMAIN LastResponse)
      => /\ nList = 1
         /\ Len(requests) = geCalls
         /\ LastRequest = [calendarId |-> args.calendar_id,
                           timeMin |-> args.start_time,
                           timeMax |-> args.end_time,
                           maxResults |-> args.max_results,
                           singleEvents |-> TRUE,
                           orderBy |-> "startTime"]
         /\ "items" \in DOMAIN LastResponse => ret = List(LastResponse.items)
         /\ "items" \notin DOMAIN LastResponse => ret = List(<<>>)

C10_Witness ==
    /\ pc = "returned"
    /\ todayPc = "off"
    /\ args.start_time = Str(Format(2020, 2, 29, 8, 30, 0))
    /\ args.end_time = Str(Format(2040, 1, 1, 0, 0, 0))
    /\ ret = List(<<Ev2, Ev1>>)

====
